---- MODULE Spec2Model ----
(***************************************************************************)
(* A model of main.py of the horoscope LINE bot: the webhook handler       *)
(* handle_message with its collaborators (LINE reply/push, the geocoding   *)
(* lookup, the Swiss Ephemeris chart computation, the Gemini              *)
(* interpretation call) and the pure helper get_zodiac_sign.               *)
(*                                                                         *)
(* Conventions.                                                            *)
(*   - A Python string is a sequence of lexical tokens (Tok); a comma and  *)
(*     a blank are tokens of their own, so str.split and str.strip are     *)
(*     modelled by what they do to the text.                               *)
(*   - Python's None is the empty sequence << >>, a present value v is     *)
(*     the one-element sequence << v >>.                                   *)
(*   - A longitude is a fixed-point number: an integer count of            *)
(*     1/UnitsPerDegree degrees.                                           *)
(*   - A call into a collaborator takes its outcome from a small set of    *)
(*     outcomes with \E; an exception is named by its Python class. The    *)
(*     variable env holds the sets the outcomes are taken from.            *)
(***************************************************************************)
EXTENDS Integers, Sequences, FiniteSets, TLC

VARIABLES req, ephe_path, env, zin, zout, cin, cout

vars == <<req, ephe_path, env, zin, zout, cin, cout>>

(***************************************************************************)
(* Bounds of the model.                                                    *)
(***************************************************************************)
\* Number of webhook events handled concurrently.
NumRequests == 2
\* Fixed-point resolution of a longitude: units per degree.
UnitsPerDegree == 2
\* get_zodiac_sign is tried on longitudes from -MaxTurns turns up to
\* MaxTurns + 1 turns, and shifted by k turns for k in -MaxK .. MaxK.
MaxTurns == 1
MaxK == 2

(***************************************************************************)
(* Optional values.                                                        *)
(***************************************************************************)
None == << >>
Some(v) == << v >>
IsNone(o) == o = << >>
Val(o) == o[1]

(***************************************************************************)
(* get_zodiac_sign (main.py 142-153).                                      *)
(***************************************************************************)
\* The twelve sign names of zodiac_signs, in the order of the list
\* (牡羊座, 牡牛座, 双子座, 蟹座, 獅子座, 乙女座, 天秤座, 蠍座, 射手座, 山羊座,
\* 水瓶座, 魚座).
zodiac_signs ==
  << "Aries", "Taurus", "Gemini", "Cancer", "Leo", "Virgo",
     "Libra", "Scorpio", "Sagittarius", "Capricorn", "Aquarius", "Pisces" >>

\* Width of one sign in degrees, the 30 of `longitude / 30`.
SignWidth == 30
\* Number of signs, the 12 of `% 12`.
NumSigns == 12
\* Degrees of one turn (the 360 of the claims; 12 signs of 30 degrees).
FullTurn == SignWidth * NumSigns

\* Python's int(n / d) for d > 0: the quotient truncated toward zero.
PyInt(n, d) == IF n >= 0 THEN n \div d ELSE -((-n) \div d)

\* A mutant of get_zodiac_sign: the quotient rounded to the nearest integer
\* (int(round(longitude / 30))) instead of truncated.
get_zodiac_sign_rounded(longitude) ==
  zodiac_signs[(PyInt(2 * longitude + SignWidth * UnitsPerDegree,
                      2 * SignWidth * UnitsPerDegree) % NumSigns) + 1]

\* sign_index = int(longitude / 30) % 12; return zodiac_signs[sign_index].
\* Python's % with a positive modulus is the floor modulus, as TLA+'s is.
\* Sequences are 1-based, hence the + 1.
get_zodiac_sign(longitude) ==
  zodiac_signs[(PyInt(longitude, SignWidth * UnitsPerDegree) % NumSigns) + 1]

(***************************************************************************)
(* Text: tokens, str.strip, str.split, datetime.strptime.                  *)
(***************************************************************************)
\* A token is [k, a, b, c]: k names its kind, a, b, c are its numbers.
\*   "comma"  the character ','            "space"  one blank
\*   "greet"  the word こんにちは
\*   "date"   the word YYYY-MM-DD written with year a, month b, day c
\*   "time"   the word HH:MM written with hour a, minute b
\*   "word"   any other word without comma or blank, numbered a
Tok(k, a, b, c) == [k |-> k, a |-> a, b |-> b, c |-> c]
Comma == Tok("comma", 0, 0, 0)
Space == Tok("space", 0, 0, 0)
Greet == Tok("greet", 0, 0, 0)
DateW(y, m, d) == Tok("date", y, m, d)
TimeW(h, mi) == Tok("time", h, mi, 0)
Word(n) == Tok("word", n, 0, 0)

\* str.strip(): the text without its leading and trailing blanks.
RECURSIVE LStrip(_)
LStrip(s) ==
  IF s # << >> /\ Head(s) = Space THEN LStrip(Tail(s)) ELSE s

RECURSIVE RStrip(_)
RStrip(s) ==
  IF s # << >> /\ s[Len(s)] = Space
  THEN RStrip(SubSeq(s, 1, Len(s) - 1))
  ELSE s

Strip(s) == RStrip(LStrip(s))

\* str.split(sep): the pieces between the separators; the empty text gives
\* one empty piece, two adjacent separators give an empty piece.
RECURSIVE SplitFrom(_, _, _, _)
SplitFrom(s, sep, done, cur) ==
  IF s = << >> THEN Append(done, cur)
  ELSE IF Head(s) = sep
       THEN SplitFrom(Tail(s), sep, Append(done, cur), << >>)
       ELSE SplitFrom(Tail(s), sep, done, Append(cur, Head(s)))

Split(s, sep) == SplitFrom(s, sep, << >>, << >>)

\* parts = [p.strip() for p in user_message.split(',')]
StripAll(ps) == [i \in 1..Len(ps) |-> Strip(ps[i])]

\* Calendar of datetime: days of a month of a year.
IsLeap(y) == (y % 4 = 0 /\ y % 100 # 0) \/ y % 400 = 0

DaysInMonth(y, m) ==
  IF m = 2 THEN (IF IsLeap(y) THEN 29 ELSE 28)
  ELSE IF m \in {4, 6, 9, 11} THEN 30 ELSE 31

\* datetime.strptime(s, "%Y-%m-%d") returns: s is one date word whose numbers
\* are a date of the calendar (MINYEAR = 1). Otherwise it raises ValueError.
strptime_date_ok(s) ==
  /\ Len(s) = 1
  /\ s[1].k = "date"
  /\ s[1].a \in 1..9999
  /\ s[1].b \in 1..12
  /\ s[1].c \in 1..DaysInMonth(s[1].a, s[1].b)

\* datetime.strptime(s, "%H:%M") returns: s is one time word of the 24-hour
\* clock. Otherwise it raises ValueError.
strptime_time_ok(s) ==
  /\ Len(s) = 1
  /\ s[1].k = "time"
  /\ s[1].a \in 0..23
  /\ s[1].b \in 0..59

(***************************************************************************)
(* Module state set at import (main.py 21-59).                             *)
(***************************************************************************)
\* swe.set_ephe_path(os.path.join(os.path.dirname(__file__), 'ephe')): the
\* one ephemeris data set of the process.
StartupEphePath == "ephe"
\* GOOGLE_GEOCODING_API_KEY: the import raises ValueError when it is unset,
\* so a running process has it.
GOOGLE_GEOCODING_API_KEY == TRUE
\* GEMINI_API_KEY: the literal of line 29, never empty.
GEMINI_API_KEY == TRUE

(***************************************************************************)
(* get_coordinates (main.py 61-91).                                        *)
(***************************************************************************)
\* What requests.get, raise_for_status and response.json can give:
\*   io      "ok", or the class of the exception one of the three raises
\*   status  data['status'], "absent" when the JSON object has no such key
\*   results data['results'], each with the lat and lng of its location
\*           (a JSON null is None)
GeoResp(io, status, results) ==
  [io |-> io, status |-> status, results |-> results]
Loc(lat, lng) == [lat |-> lat, lng |-> lng]

GeoResponses ==
  { GeoResp("ok", "OK", << Loc(Some(35), Some(139)) >>),
    GeoResp("ok", "OK", << Loc(Some(91), Some(139)) >>),
    GeoResp("ok", "OK", << Loc(Some(35), Some(181)) >>),
    GeoResp("ok", "OK", << Loc(None, Some(139)) >>),
    GeoResp("ok", "OK", << >>),
    GeoResp("ok", "ZERO_RESULTS", << >>),
    GeoResp("ok", "absent", << >>),
    GeoResp("RequestException", "absent", << >>),
    GeoResp("JSONDecodeError", "absent", << >>) }

\* The result of a call: raised is "none" or the class of the exception that
\* leaves the function, lat and lon the returned pair, lookups the number
\* of requests.get calls made.
GeoResult(raised, lat, lon, lookups) ==
  [raised |-> raised, lat |-> lat, lon |-> lon, lookups |-> lookups]

\* A mutant of get_coordinates: one more lookup after a failed one.
get_coordinates_retry(city, region, http) ==
  IF http.io = "ok" /\ http.status = "OK" /\ http.results # << >>
  THEN GeoResult("none", http.results[1].lat, http.results[1].lng, 1)
  ELSE GeoResult("none", None, None, 2)

get_coordinates(city, region, http) ==
  IF ~GOOGLE_GEOCODING_API_KEY THEN GeoResult("none", None, None, 0)
  ELSE IF http.io \in {"RequestException", "JSONDecodeError"}
       THEN GeoResult("none", None, None, 1)
  ELSE IF http.status = "absent" THEN GeoResult("KeyError", None, None, 1)
  ELSE IF http.status = "OK" /\ http.results # << >>
       THEN GeoResult("none", http.results[1].lat, http.results[1].lng, 1)
  ELSE GeoResult("none", None, None, 1)

(***************************************************************************)
(* calculate_natal_chart (main.py 93-140).                                 *)
(***************************************************************************)
\* planets, in the order of the dict literal (its keys; the values are the
\* Swiss Ephemeris body numbers SUN = 0 .. PLUTO = 9).
planets ==
  << "Sun", "Moon", "Mercury", "Venus", "Mars", "Jupiter",
     "Saturn", "Uranus", "Neptune", "Pluto" >>

\* The step of the try block at which a library call raises, "none" when
\* none does: the timezone conversion, swe.utc_to_jd, swe.calc_ut for one
\* body, or swe.houses.
Faults == {"none", "tz", "jd", "houses"} \cup {planets[i] : i \in 1..Len(planets)}

\* d[k] = v on a dict kept as the sequence of its items in insertion order.
DictSet(d, k, v) ==
  IF \E i \in 1..Len(d) : d[i].key = k
  THEN [i \in 1..Len(d) |-> IF d[i].key = k THEN [key |-> k, pos |-> v] ELSE d[i]]
  ELSE Append(d, [key |-> k, pos |-> v])

Keys(d) == {d[i].key : i \in 1..Len(d)}

\* local_dt.astimezone(pytz.utc) for Asia/Tokyo at its fixed UTC+9: the
\* civil time nine hours earlier. year = 0 stands for the OverflowError
\* datetime raises below MINYEAR.
ToUtc(y, m, d, h, mi) ==
  IF h >= 9 THEN [year |-> y, month |-> m, day |-> d, hour |-> h - 9, minute |-> mi]
  ELSE IF d > 1
       THEN [year |-> y, month |-> m, day |-> d - 1, hour |-> h + 15, minute |-> mi]
  ELSE IF m > 1
       THEN [year |-> y, month |-> m - 1, day |-> DaysInMonth(y, m - 1),
             hour |-> h + 15, minute |-> mi]
  ELSE [year |-> y - 1, month |-> 12, day |-> 31, hour |-> h + 15, minute |-> mi]

\* swe.utc_to_jd: the Julian Day of a Gregorian UTC timestamp, as whole days
\* and minutes of the day (a Julian Day starts at noon): the day number of
\* the date, one less before noon, and the minutes since the last noon.
utc_to_jd(u) ==
  LET a == (14 - u.month) \div 12
      y2 == u.year + 4800 - a
      m2 == u.month + 12 * a - 3
      jdn == u.day + (153 * m2 + 2) \div 5 + 365 * y2 + y2 \div 4
             - y2 \div 100 + y2 \div 400 - 32045
  IN  [day |-> IF u.hour >= 12 THEN jdn ELSE jdn - 1,
       minute |-> ((u.hour + 12) % 24) * 60 + u.minute]

\* swe.calc_ut(jd, p_id, FLG_SWIEPH): the ephemeris is a fixed table, a
\* function of the moment, the body and the data set under the ephemeris
\* path; xx[0] is a longitude in [0, 360), xx[1] the second number.
EpheSeed(path) == IF path = StartupEphePath THEN 0 ELSE 7

calc_ut(jd, p_id, path) ==
  << ((jd.day % 1000) * (p_id + 1) + jd.minute + 37 * p_id + EpheSeed(path))
        % (FullTurn * UnitsPerDegree),
     (jd.day + jd.minute + p_id) % 3 >>

\* swe.houses(jd, latitude, longitude, b'P'): ascmc[0] and ascmc[1], a
\* function of the moment and the place.
houses(jd, latitude, longitude) ==
  << (jd.minute + 4 * longitude * UnitsPerDegree) % (FullTurn * UnitsPerDegree),
     (jd.minute + 4 * longitude * UnitsPerDegree + 3 * latitude)
        % (FullTurn * UnitsPerDegree) >>

\* for name, p_id in planets.items(): natal_positions[name] = (xx[0], xx[1]),
\* from the i-th body on; the loop stops at the body whose calc_ut raises.
RECURSIVE calc_planets(_, _, _, _, _)
calc_planets(i, jd, path, fault, natal_positions) ==
  IF i > Len(planets) THEN [raised |-> FALSE, natal_positions |-> natal_positions]
  ELSE IF fault = planets[i]
       THEN [raised |-> TRUE, natal_positions |-> natal_positions]
  ELSE calc_planets(i + 1, jd, path, fault,
                    DictSet(natal_positions, planets[i], calc_ut(jd, i - 1, path)))

\* The try block (lines 98-136): raised tells whether an exception left it,
\* natal_positions is the dict as it stood then.
natal_chart_try(birth_date_str, birth_time_str, latitude, longitude, path, fault) ==
  LET failed == [raised |-> TRUE, natal_positions |-> << >>]
  IN
  IF ~(strptime_date_ok(birth_date_str) /\ strptime_time_ok(birth_time_str))
  THEN failed
  ELSE
    LET dw == birth_date_str[1]
        tw == birth_time_str[1]
        utc_dt == ToUtc(dw.a, dw.b, dw.c, tw.a, tw.b)
    IN
    IF fault = "tz" \/ utc_dt.year < 1 THEN failed
    ELSE IF fault = "jd" THEN failed
    ELSE
      LET jd_utc == utc_to_jd(utc_dt)
          bodies == calc_planets(1, jd_utc, path, fault, << >>)
      IN
      IF bodies.raised THEN bodies
      ELSE IF fault = "houses" \/ IsNone(latitude) \/ IsNone(longitude)
           THEN [raised |-> TRUE, natal_positions |-> bodies.natal_positions]
      ELSE
        LET ascmc == houses(jd_utc, Val(latitude), Val(longitude))
        IN [raised |-> FALSE,
            natal_positions |->
              DictSet(DictSet(bodies.natal_positions, "ASC", << ascmc[1] >>),
                      "MC", << ascmc[2] >>)]

\* A mutant of calculate_natal_chart: the except branch returns the dict as
\* far as it was filled instead of None.
calculate_natal_chart_partial(birth_date_str, birth_time_str, latitude, longitude, path, fault) ==
  Some(natal_chart_try(birth_date_str, birth_time_str, latitude, longitude,
                       path, fault).natal_positions)

\* return natal_positions, or None from the except branch.
calculate_natal_chart(birth_date_str, birth_time_str, latitude, longitude, path, fault) ==
  LET t == natal_chart_try(birth_date_str, birth_time_str, latitude, longitude,
                           path, fault)
  IN IF t.raised THEN None ELSE Some(t.natal_positions)

(***************************************************************************)
(* generate_horoscope_interpretation (main.py 155-203).                    *)
(***************************************************************************)
\* What model.generate_content can give: a response with text ("text"), a
\* response without candidates ("no_candidates"), or an exception whose
\* message holds "Forbidden", "Quota exceeded", "timeout", or none of them
\* ("error").
GeminiOutcomes ==
  {"text", "no_candidates", "Forbidden", "Quota exceeded", "timeout", "error"}

\* The strings the function can return. INTERPRETATION is the text of the
\* model, the others are the literals of lines 161, 191, 197, 199, 201, 203.
InterpretationErrors ==
  {"ERR_NO_API_KEY", "ERR_NO_RESPONSE", "ERR_FORBIDDEN", "ERR_QUOTA",
   "ERR_TIMEOUT", "ERR_NETWORK"}

\* The prompt lines "- {name}: {get_zodiac_sign(pos[0])} ({pos[0]:.2f}度)".
build_prompt(natal_positions) ==
  [i \in 1..Len(natal_positions) |->
     << natal_positions[i].key,
        get_zodiac_sign(natal_positions[i].pos[1]),
        natal_positions[i].pos[1] >>]

\* text is the returned string, prompts the prompts handed to
\* generate_content (none when the key is missing).
generate_horoscope_interpretation(natal_positions, gemini) ==
  IF ~GEMINI_API_KEY THEN [text |-> "ERR_NO_API_KEY", prompts |-> << >>]
  ELSE
    [prompts |-> << build_prompt(natal_positions) >>,
     text |->
       CASE gemini = "text" -> "INTERPRETATION"
         [] gemini = "no_candidates" -> "ERR_NO_RESPONSE"
         [] gemini = "Forbidden" -> "ERR_FORBIDDEN"
         [] gemini = "Quota exceeded" -> "ERR_QUOTA"
         [] gemini = "timeout" -> "ERR_TIMEOUT"
         [] OTHER -> "ERR_NETWORK"]

(***************************************************************************)
(* LINE messages (main.py 230-283).                                        *)
(***************************************************************************)
\* The message texts of handle_message, each a sequence of its pieces:
\*   GREETING        line 230      LOADING         line 250
\*   GEO_FAIL        line 254      CALC_FAIL       line 261
\*   RESULT_HEADER   the "ホロスコープ診断結果です：" of line 267, followed by
\*                   the interpretation
\*   WRONG_SHAPE     line 272      WRONG_DATETIME  line 277
\*   UNEXPECTED      line 282
ResultMessage(interpretation) == << "RESULT_HEADER", interpretation >>

\* What a call of line_bot_api.reply_message or push_message can do: return
\* ("none") or raise. "ValueError" stands for the exception classes derived
\* from ValueError, "LineBotApiError" for all the others.
SendOutcomes == {"none", "ValueError", "LineBotApiError"}

\* The exception classes `except ValueError` catches.
ValueErrors == {"ValueError", "JSONDecodeError"}

(***************************************************************************)
(* The input parser of handle_message (main.py 238-247).                   *)
(***************************************************************************)
Parsed(outcome, birth_date_str, birth_time_str, region, city) ==
  [outcome |-> outcome, birth_date_str |-> birth_date_str,
   birth_time_str |-> birth_time_str, region |-> region, city |-> city]

\* A mutant of parse_input: `if len(parts) >= 3` instead of `== 3`.
parse_input_at_least_three(user_message) ==
  LET parts == StripAll(Split(user_message, Comma))
  IN
  IF Len(parts) < 3 THEN Parsed("shape", None, None, None, None)
  ELSE
    LET words == Split(parts[1], Space)
    IN
    IF Len(words) < 2
    THEN Parsed("IndexError", Some(words[1]), None, None, None)
    ELSE
      LET p == Parsed("ok", Some(words[1]), Some(words[2]),
                      Some(parts[2]), Some(parts[3]))
      IN
      IF ~strptime_date_ok(words[1]) THEN [p EXCEPT !.outcome = "ValueError"]
      ELSE IF ~strptime_time_ok(words[2]) THEN [p EXCEPT !.outcome = "ValueError"]
      ELSE p

\* outcome: "ok" when line 249 is reached, "shape" when the else branch of
\* line 271 is, or the class of the exception raised.
parse_input(user_message) ==
  LET parts == StripAll(Split(user_message, Comma))
  IN
  IF Len(parts) # 3 THEN Parsed("shape", None, None, None, None)
  ELSE
    LET words == Split(parts[1], Space)
    IN
    IF Len(words) < 2
    THEN Parsed("IndexError", Some(words[1]), None, None, None)
    ELSE
      LET p == Parsed("ok", Some(words[1]), Some(words[2]),
                      Some(parts[2]), Some(parts[3]))
      IN
      IF ~strptime_date_ok(words[1]) THEN [p EXCEPT !.outcome = "ValueError"]
      ELSE IF ~strptime_time_ok(words[2]) THEN [p EXCEPT !.outcome = "ValueError"]
      ELSE p

(***************************************************************************)
(* The collaborators' behaviour.                                           *)
(***************************************************************************)
\* Every outcome of every collaborator.
FullEnv ==
  [sends |-> SendOutcomes, geo |-> GeoResponses,
   faults |-> Faults, gemini |-> GeminiOutcomes]

\* The outcomes met when several events are handled at once: a send
\* returns or raises, the lookup finds a place, finds none or answers
\* without a status, the chart is computed or swe.houses raises, the
\* interpretation is given or times out.
ConcurrentEnv ==
  [sends |-> {"none", "ValueError"},
   geo |-> { GeoResp("ok", "OK", << Loc(Some(35), Some(139)) >>),
             GeoResp("ok", "ZERO_RESULTS", << >>),
             GeoResp("ok", "absent", << >>) },
   faults |-> {"none", "houses"},
   gemini |-> {"text", "timeout"}]

(***************************************************************************)
(* handle_message (main.py 222-283), one webhook event per request.        *)
(***************************************************************************)
Requests == 1..NumRequests

\* Texts of event.message.text tried. Word(2) and Word(3) are a region and
\* a locality.
Place == << Comma, Space, Word(2), Comma, Space, Word(3) >>

Messages ==
  { << Greet >>,
    << Word(1) >>,
    << DateW(1990, 1, 1), Space, TimeW(12, 30) >> \o Place,
    << DateW(1, 1, 1), Space, TimeW(0, 0) >> \o Place,
    << DateW(1990, 13, 40), Space, TimeW(12, 30) >> \o Place,
    << DateW(1990, 1, 1), Space, TimeW(25, 61) >> \o Place,
    << DateW(1990, 1, 1), Space, Space, TimeW(12, 30) >> \o Place,
    << DateW(1990, 1, 1) >> \o Place,
    << DateW(1990, 1, 1), Space, TimeW(12, 30), Comma, Space, Word(2) >>,
    << DateW(1990, 1, 1), Space, TimeW(12, 30) >> \o Place \o << Comma, Word(4) >> }

\* The frame of one call of handle_message: the event, the locals, and the
\* calls made so far.
\*   pc         the line the call stands at ("idle": no event, "done": left)
\*   result     "running", "returned", or "raised" when an exception left
\*              handle_message
\*   coords     the (lat, lon) pair get_coordinates returned, None before
\*   log        the reply_message and push_message calls, in order
\*   lookups    the number of requests.get calls of get_coordinates
\*   calc_args  the (latitude, longitude) of each calculate_natal_chart call
\*   prompts    the prompts handed to the interpretation model
NewRequest(r, text) ==
  [pc |-> "start", result |-> "running",
   text |-> text, user_message |-> Strip(text),
   reply_token |-> r, user_id |-> r,
   birth_date_str |-> None, birth_time_str |-> None,
   region |-> None, city |-> None,
   coords |-> None,
   natal_positions |-> None, interpretation |-> None,
   log |-> << >>, lookups |-> 0, calc_args |-> << >>, prompts |-> << >>]

IdleRequest(r) == [NewRequest(r, << >>) EXCEPT !.pc = "idle"]

\* line_bot_api.reply_message(event.reply_token, TextSendMessage(text)).
reply_message(rq, text, o) ==
  [rq EXCEPT !.log = Append(@, [api |-> "reply", dest |-> rq.reply_token,
                                text |-> text, raised |-> o])]

\* line_bot_api.push_message(user_id, TextSendMessage(text)).
push_message(rq, text, o) ==
  [rq EXCEPT !.log = Append(@, [api |-> "push", dest |-> rq.user_id,
                                text |-> text, raised |-> o])]

\* Leaving handle_message: by return, or by an exception nothing catches.
Leave(rq, o) ==
  [rq EXCEPT !.pc = "done",
             !.result = IF o = "none" THEN "returned" ELSE "raised"]

\* Where an exception of class cls raised in the try block of line 237
\* goes: to `except ValueError` (276) or to `except Exception` (280).
Catch(rq, cls) ==
  [rq EXCEPT !.pc = IF cls \in ValueErrors THEN "except_value"
                    ELSE "except_exception"]

\* After a send in the try block: on to pc next, or to the handler.
After(rq, o, next) ==
  IF o = "none" THEN [rq EXCEPT !.pc = next] ELSE Catch(rq, o)

\* After a send in the try block that a return or the end of the function
\* follows (lines 257, 264, 269, 274).
AfterLast(rq, o) ==
  IF o = "none" THEN Leave(rq, "none") ELSE Catch(rq, o)

\* Lines 229-233: the greeting, sent outside the try block.
GreetingNext(rq) ==
  { Leave(reply_message(rq, << "GREETING" >>, o), o) : o \in env.sends }

\* Lines 238-247: split the text and validate date and time.
ParseNext(rq) ==
  LET p == parse_input(rq.user_message)
      q == [rq EXCEPT !.birth_date_str = p.birth_date_str,
                      !.birth_time_str = p.birth_time_str,
                      !.region = p.region, !.city = p.city]
  IN { CASE p.outcome = "ok" -> [q EXCEPT !.pc = "loading"]
         [] p.outcome = "shape" -> [q EXCEPT !.pc = "shape"]
         [] OTHER -> Catch(q, p.outcome) }

\* Line 250: the loading acknowledgement.
LoadingNext(rq) ==
  { After(reply_message(rq, << "LOADING" >>, o), o, "geocode") : o \in env.sends }

\* Lines 252-253: the geocoding lookup and the test for None.
GeocodeNext(rq) ==
  { LET g == get_coordinates(Val(rq.city), Val(rq.region), http)
        q == [rq EXCEPT !.lookups = @ + g.lookups]
    IN IF g.raised # "none" THEN Catch(q, g.raised)
       ELSE [q EXCEPT !.coords = Some(<< g.lat, g.lon >>),
                      !.pc = IF IsNone(g.lat) \/ IsNone(g.lon)
                             THEN "geo_fail" ELSE "calc"]
    : http \in env.geo }

\* Lines 254-257.
GeoFailNext(rq) ==
  { AfterLast(push_message(rq, << "GEO_FAIL" >>, o), o) : o \in env.sends }

\* Lines 259-260: the chart and the test for None.
CalcNext(rq, path) ==
  { LET lat == Val(rq.coords)[1]
        lon == Val(rq.coords)[2]
        n == calculate_natal_chart(Val(rq.birth_date_str), Val(rq.birth_time_str),
                                   lat, lon, path, fault)
    IN [rq EXCEPT !.natal_positions = n,
                  !.calc_args = Append(@, << Val(lat), Val(lon) >>),
                  !.pc = IF IsNone(n) THEN "calc_fail" ELSE "interpret"]
    : fault \in env.faults }

\* Lines 261-264.
CalcFailNext(rq) ==
  { AfterLast(push_message(rq, << "CALC_FAIL" >>, o), o) : o \in env.sends }

\* Line 266.
InterpretNext(rq) ==
  { LET i == generate_horoscope_interpretation(Val(rq.natal_positions), gemini)
    IN [rq EXCEPT !.interpretation = Some(i.text),
                  !.prompts = @ \o i.prompts,
                  !.pc = "result"]
    : gemini \in env.gemini }

\* Lines 267-269.
ResultNext(rq) ==
  { AfterLast(push_message(rq, ResultMessage(Val(rq.interpretation)), o), o)
    : o \in env.sends }

\* Lines 271-274.
ShapeNext(rq) ==
  { AfterLast(reply_message(rq, << "WRONG_SHAPE" >>, o), o) : o \in env.sends }

\* Lines 276-279: an exception raised here leaves handle_message.
ExceptValueNext(rq) ==
  { Leave(reply_message(rq, << "WRONG_DATETIME" >>, o), o) : o \in env.sends }

\* Lines 280-283: an exception raised here leaves handle_message.
ExceptExceptionNext(rq) ==
  { Leave(push_message(rq, << "UNEXPECTED" >>, o), o) : o \in env.sends }

(***************************************************************************)
(* Actions of a request: one per stretch of handle_message between two     *)
(* calls into a collaborator, where another request can run.               *)
(***************************************************************************)
Others == <<env, zin, zout, cin, cout>>

Step(r, n) == req' = [req EXCEPT ![r] = n]

Greeting(r) ==
  /\ req[r].pc = "start"
  /\ req[r].user_message = << Greet >>
  /\ \E n \in GreetingNext(req[r]) : Step(r, n)
  /\ UNCHANGED <<ephe_path, Others>>

ParseInput(r) ==
  /\ req[r].pc = "start"
  /\ req[r].user_message # << Greet >>
  /\ \E n \in ParseNext(req[r]) : Step(r, n)
  /\ UNCHANGED <<ephe_path, Others>>

SendLoading(r) ==
  /\ req[r].pc = "loading"
  /\ \E n \in LoadingNext(req[r]) : Step(r, n)
  /\ UNCHANGED <<ephe_path, Others>>

Geocode(r) ==
  /\ req[r].pc = "geocode"
  /\ \E n \in GeocodeNext(req[r]) : Step(r, n)
  /\ UNCHANGED <<ephe_path, Others>>

PushGeoFail(r) ==
  /\ req[r].pc = "geo_fail"
  /\ \E n \in GeoFailNext(req[r]) : Step(r, n)
  /\ UNCHANGED <<ephe_path, Others>>

\* A mutant of CalcChart: the ephemeris is closed after the computation
\* (swe.close()), which drops the ephemeris path of the process.
CalcChartClosing(r) ==
  /\ req[r].pc = "calc"
  /\ \E n \in CalcNext(req[r], ephe_path) : Step(r, n)
  /\ ephe_path' = ""
  /\ UNCHANGED Others

CalcChart(r) ==
  /\ req[r].pc = "calc"
  /\ \E n \in CalcNext(req[r], ephe_path) : Step(r, n)
  /\ UNCHANGED <<ephe_path, Others>>

PushCalcFail(r) ==
  /\ req[r].pc = "calc_fail"
  /\ \E n \in CalcFailNext(req[r]) : Step(r, n)
  /\ UNCHANGED <<ephe_path, Others>>

Interpret(r) ==
  /\ req[r].pc = "interpret"
  /\ \E n \in InterpretNext(req[r]) : Step(r, n)
  /\ UNCHANGED <<ephe_path, Others>>

PushResult(r) ==
  /\ req[r].pc = "result"
  /\ \E n \in ResultNext(req[r]) : Step(r, n)
  /\ UNCHANGED <<ephe_path, Others>>

ReplyShape(r) ==
  /\ req[r].pc = "shape"
  /\ \E n \in ShapeNext(req[r]) : Step(r, n)
  /\ UNCHANGED <<ephe_path, Others>>

ExceptValueError(r) ==
  /\ req[r].pc = "except_value"
  /\ \E n \in ExceptValueNext(req[r]) : Step(r, n)
  /\ UNCHANGED <<ephe_path, Others>>

ExceptException(r) ==
  /\ req[r].pc = "except_exception"
  /\ \E n \in ExceptExceptionNext(req[r]) : Step(r, n)
  /\ UNCHANGED <<ephe_path, Others>>

(***************************************************************************)
(* The pure functions, applied to inputs drawn at the start.               *)
(***************************************************************************)
\* Longitudes tried, in units: from -MaxTurns turns up to MaxTurns + 1 turns.
LonInputs ==
  (-(MaxTurns * FullTurn * UnitsPerDegree))
    .. ((MaxTurns + 1) * FullTurn * UnitsPerDegree)

ZodiacIdle == [L |-> 0, k |-> 0]

\* get_zodiac_sign at L and at L shifted by k turns.
Classify ==
  /\ zout = None
  /\ zin # ZodiacIdle
  /\ zout' = Some([sign |-> get_zodiac_sign(zin.L),
                   shifted |-> get_zodiac_sign(zin.L + FullTurn * UnitsPerDegree * zin.k)])
  /\ UNCHANGED <<req, ephe_path, env, zin, cin, cout>>

\* Arguments of calculate_natal_chart tried.
ChartInputs ==
  [birth_date_str : { << DateW(1990, 1, 1) >>, << DateW(1, 1, 1) >>,
                      << DateW(1990, 13, 40) >>, << Word(1) >> },
   birth_time_str : { << TimeW(12, 30) >>, << TimeW(0, 0) >>, << TimeW(25, 61) >> },
   latitude : { Some(35), Some(91), None },
   longitude : { Some(139), None },
   fault : Faults]

ChartIdle ==
  [birth_date_str |-> << >>, birth_time_str |-> << >>, latitude |-> None,
   longitude |-> None, fault |-> "none"]

Calculate ==
  /\ cout = None
  /\ cin # ChartIdle
  /\ cout' = Some(calculate_natal_chart(cin.birth_date_str, cin.birth_time_str,
                                        cin.latitude, cin.longitude,
                                        ephe_path, cin.fault))
  /\ UNCHANGED <<req, ephe_path, env, zin, zout, cin>>

(***************************************************************************)
(* Specifications.                                                         *)
(***************************************************************************)
PureIdle == zin = ZodiacIdle /\ zout = None /\ cin = ChartIdle /\ cout = None

\* NumRequests events handled concurrently.
Init ==
  /\ req \in [Requests -> UNION {{NewRequest(r, m) : m \in Messages} : r \in Requests}]
  /\ \A r \in Requests : req[r].reply_token = r
  /\ ephe_path = StartupEphePath
  /\ env = ConcurrentEnv
  /\ PureIdle

\* One event handled.
InitOne ==
  /\ \E m \in Messages :
       req = [r \in Requests |-> IF r = 1 THEN NewRequest(r, m) ELSE IdleRequest(r)]
  /\ ephe_path = StartupEphePath
  /\ env = FullEnv
  /\ PureIdle

InitZodiac ==
  /\ req = [r \in Requests |-> IdleRequest(r)]
  /\ ephe_path = StartupEphePath
  /\ env = FullEnv
  /\ zin \in [L : LonInputs, k : (-MaxK)..MaxK] \ {ZodiacIdle}
  /\ zout = None /\ cin = ChartIdle /\ cout = None

InitChart ==
  /\ req = [r \in Requests |-> IdleRequest(r)]
  /\ ephe_path = StartupEphePath
  /\ env = FullEnv
  /\ zin = ZodiacIdle /\ zout = None
  /\ cin \in ChartInputs
  /\ cout = None

Next ==
  \E r \in Requests :
    \/ Greeting(r)
    \/ ParseInput(r)
    \/ SendLoading(r)
    \/ Geocode(r)
    \/ PushGeoFail(r)
    \/ CalcChart(r)
    \/ PushCalcFail(r)
    \/ Interpret(r)
    \/ PushResult(r)
    \/ ReplyShape(r)
    \/ ExceptValueError(r)
    \/ ExceptException(r)

Spec == Init /\ [][Next]_vars
SpecOne == InitOne /\ [][Next]_vars
SpecZodiac == InitZodiac /\ [][Classify]_vars
SpecChart == InitChart /\ [][Calculate]_vars

(***************************************************************************)
(* Properties.                                                             *)
(***************************************************************************)
Sign == Val(zout).sign
Shifted == Val(zout).shifted
OneTurn == FullTurn * UnitsPerDegree
OneSign == SignWidth * UnitsPerDegree

\* C1. Periodicity of get_zodiac_sign: for every longitude L, negative ones
\* and ones of 360 degrees and more included, and every integer k,
\* get_zodiac_sign(L) is the sign get_zodiac_sign(L + 360 * k) is.
C1_Periodicity ==
  zout # None => Sign = Shifted

\* C8. Closed-open bands of 30 degrees: for every longitude L with
\* 0 <= L < 360, get_zodiac_sign(L) is the sign of index floor(L / 30) of
\* the twelve in their order, and 360 is classified as 0 is, as the first
\* sign.
C8_ClosedOpenBands ==
  zout # None =>
    /\ (0 <= zin.L /\ zin.L < OneTurn) =>
         Sign = zodiac_signs[(zin.L \div OneSign) + 1]
    /\ zin.L = OneTurn => Sign = zodiac_signs[1]
    /\ (zin.L = 0 /\ zin.k = 1) => Shifted = Sign

\* A longitude just below 30 degrees was classified, as the first sign.
C8_Witness ==
  /\ zout # None
  /\ zin.L = OneSign - 1
  /\ Sign = "Aries"

\* The twelve identifiers of a chart.
ChartIds == {planets[i] : i \in 1..Len(planets)} \cup {"ASC", "MC"}

\* A chart holds each of the twelve identifiers exactly once.
CompleteChart(natal_positions) ==
  /\ Len(natal_positions) = Cardinality(ChartIds)
  /\ Keys(natal_positions) = ChartIds

\* C3. calculate_natal_chart is all or nothing: for every input and a
\* failure at any step, it returns None or a chart with exactly the twelve
\* identifiers, each once; never a chart with fewer entries.
C3_AllOrNothing ==
  cout # None => (IsNone(Val(cout)) \/ CompleteChart(Val(Val(cout))))

\* calc_ut raised for the fifth body, after four were stored, and the call
\* returned None.
C3_Witness ==
  /\ cout # None
  /\ strptime_date_ok(cin.birth_date_str) /\ strptime_time_ok(cin.birth_time_str)
  /\ cin.fault = "Mars"
  /\ IsNone(Val(cout))

\* The comma-separated fields of a request's message.
Fields(rq) == StripAll(Split(rq.user_message, Comma))

IsGreeting(rq) == rq.user_message = << Greet >>

\* The first field is a valid "<date> <time>" pair.
ValidDateTimeField(field) ==
  LET words == Split(field, Space)
  IN /\ Len(words) = 2
     /\ strptime_date_ok(words[1])
     /\ strptime_time_ok(words[2])

Texts(rq) == {rq.log[i].text : i \in 1..Len(rq.log)}

NoComputation(rq) ==
  /\ rq.lookups = 0
  /\ rq.calc_args = << >>
  /\ rq.prompts = << >>

\* C2. A message of three fields whose first field is no valid
\* "<date> <time>" pair (an invalid date, an invalid time, a missing time)
\* ends handle_message with the reply "wrong date/time syntax", never with
\* the reply "wrong shape" or the unexpected-error message, and without a
\* geocoding, chart or interpretation call.
C2_DateTimeSyntaxReply ==
  \A r \in Requests :
    LET rq == req[r]
    IN (/\ rq.pc = "done"
        /\ ~IsGreeting(rq)
        /\ Len(Fields(rq)) = 3
        /\ ~ValidDateTimeField(Fields(rq)[1]))
       => /\ Texts(rq) = { << "WRONG_DATETIME" >> }
          /\ NoComputation(rq)

\* C4. Coordinates are validated before the computation: calculate_natal_chart
\* is never called with a latitude outside [-90, 90] or a longitude outside
\* [-180, 180].
C4_CoordinatesValidated ==
  \A r \in Requests :
    \A i \in 1..Len(req[r].calc_args) :
      /\ req[r].calc_args[i][1] \in (-90)..90
      /\ req[r].calc_args[i][2] \in (-180)..180

\* The coordinates of every calculate_natal_chart call are in range.
ValidCoordinates(rq) ==
  \A i \in 1..Len(rq.calc_args) :
    /\ rq.calc_args[i][1] \in (-90)..90
    /\ rq.calc_args[i][2] \in (-180)..180

\* C5. When the interpretation fails after a chart was validly computed
\* (an exception of the call, a response with no text), the outcome
\* delivered to the user is one of its own, "interpretation unavailable":
\* no message goes out as a diagnosis result.
C5_InterpretationUnavailable ==
  \A r \in Requests :
    LET rq == req[r]
    IN (/\ rq.natal_positions # None /\ ValidCoordinates(rq)
        /\ rq.interpretation # None
        /\ Val(rq.interpretation) \in InterpretationErrors)
       => \A i \in 1..Len(rq.log) : rq.log[i].text[1] # "RESULT_HEADER"

\* get_coordinates returned, with no latitude or no longitude.
GeoNotFound(rq) ==
  /\ rq.coords # None
  /\ (IsNone(Val(rq.coords)[1]) \/ IsNone(Val(rq.coords)[2]))

\* C6. When geocoding yields "not found" the request halts: one lookup was
\* made and no more, calculate_natal_chart and the interpretation are never
\* called, and the geocode-failure message is pushed to the user, after
\* which handle_message returns.
C6_GeocodeNotFoundHalts ==
  \A r \in Requests :
    LET rq == req[r]
    IN GeoNotFound(rq) =>
         /\ rq.lookups = 1
         /\ rq.calc_args = << >> /\ rq.prompts = << >>
         /\ rq.natal_positions = None /\ rq.interpretation = None
         /\ rq.pc # "geo_fail" =>
              /\ Len(rq.log) >= 2
              /\ rq.log[2].api = "push" /\ rq.log[2].dest = rq.user_id
              /\ rq.log[2].text = << "GEO_FAIL" >>
              /\ rq.log[2].raised = "none" =>
                   (rq.pc = "done" /\ rq.result = "returned" /\ Len(rq.log) = 2)

\* A lookup found nothing, the geocode-failure message went out and the
\* handler returned.
C6_Witness ==
  \E r \in Requests :
    /\ GeoNotFound(req[r])
    /\ req[r].pc = "done"
    /\ req[r].log[2].text = << "GEO_FAIL" >>
    /\ req[r].log[2].raised = "none"

AloneSteps(rq) ==
  CASE rq.pc = "start" -> IF IsGreeting(rq) THEN GreetingNext(rq) ELSE ParseNext(rq)
    [] rq.pc = "loading" -> LoadingNext(rq)
    [] rq.pc = "geocode" -> GeocodeNext(rq)
    [] rq.pc = "geo_fail" -> GeoFailNext(rq)
    [] rq.pc = "calc" -> CalcNext(rq, StartupEphePath)
    [] rq.pc = "calc_fail" -> CalcFailNext(rq)
    [] rq.pc = "interpret" -> InterpretNext(rq)
    [] rq.pc = "result" -> ResultNext(rq)
    [] rq.pc = "shape" -> ShapeNext(rq)
    [] rq.pc = "except_value" -> ExceptValueNext(rq)
    [] rq.pc = "except_exception" -> ExceptExceptionNext(rq)
    [] OTHER -> {}

\* C9. Requests are independent under concurrency: in every interleaving of
\* concurrent handle_message calls no step writes state shared between
\* requests (the ephemeris path stays the one set at startup), a step of a
\* request leaves the other requests' frames alone, and it is a step the
\* request could take running alone, so its chart and its messages are
\* those of a run alone.
C9_Independence ==
  [][ /\ ephe_path' = ephe_path
      /\ \A r \in Requests :
           req'[r] # req[r] =>
             /\ \A q \in Requests \ {r} : req'[q] = req[q]
             /\ req'[r] \in AloneSteps(req[r]) ]_vars

\* Two requests in flight at once: one holds its chart while the other is
\* about to compute its own.
C9_Witness ==
  \E r, q \in Requests :
    /\ r # q
    /\ req[r].pc = "result" /\ req[r].natal_positions # None
    /\ req[q].pc = "calc"

\* C10. The reply token is used once: on every path of handle_message on
\* which the loading acknowledgement was sent, exceptions of the later
\* steps included, every later message goes out with push_message, so
\* reply_message is called at most once with the event's reply token.
C10_ReplyTokenOnce ==
  \A r \in Requests :
    LET rq == req[r]
    IN (/\ Len(rq.log) >= 1
        /\ rq.log[1].text = << "LOADING" >>
        /\ rq.log[1].raised = "none")
       => \A i \in 2..Len(rq.log) : rq.log[i].api = "push"

====
